---- MODULE Spec2Model ----
(***************************************************************************)
(* Model of main.py: a FastAPI banking service over one process-wide       *)
(* dictionary, fake_users_db.  The three protected routes (get_balance,    *)
(* deposit, withdraw) are plain `def` handlers, which FastAPI runs on      *)
(* worker threads, so requests interleave between their individual reads   *)
(* and writes of fake_users_db.  Amounts are Python floats: besides finite *)
(* numbers a request body can carry NaN and +/-Infinity.                   *)
(***************************************************************************)
EXTENDS Integers, FiniteSets, Sequences, TLC

\* Number of worker threads; each serves one request.
NThreads == 2

Threads == 1..NThreads

Users == {"user1", "user2"}

-----------------------------------------------------------------------------
(* Python float values: binary floating point, rounded to nearest, ties to  *)
(* even.  The format is scaled down from the double's 53 significant bits:  *)
(* a finite value is a whole number n of steps of 2^-FractionBits, of which *)
(* MantissaBits significant bits are kept.  Whole numbers below             *)
(* 2^MantissaBits are exact, as they are in a double; decimal fractions     *)
(* such as 0.1 are not, as they are not in a double.                        *)

\* significant bits of a float (53 in a double)
MantissaBits == 13

\* the smallest step of a float is 2^-FractionBits
FractionBits == 16

Scale == 2 ^ FractionBits

RECURSIVE Ulp(_, _)
\* the spacing of the floats around magnitude m (in steps), from spacing s up
Ulp(m, s) == IF m < (2 ^ MantissaBits) * s THEN s ELSE Ulp(m, 2 * s)

\* num/den steps rounded to the nearest float, ties to even
RoundRatio(num, den) ==
    LET m == IF num < 0 THEN 0 - num ELSE num
        s == Ulp(m \div den, 1)
        k == m \div (den * s)
        rest == m - k * den * s
        up == 2 * rest > den * s \/ (2 * rest = den * s /\ k % 2 = 1)
        r == IF up THEN (k + 1) * s ELSE k * s
    IN IF num < 0 THEN 0 - r ELSE r

\* the float of whole number n
Fin(n) == [cls |-> "finite", n |-> RoundRatio(n * Scale, 1)]

\* the float nearest to the decimal k/10, as parsed from a request body
Tenths(k) == [cls |-> "finite", n |-> RoundRatio(k * Scale, 10)]

NaN == [cls |-> "nan", n |-> 0]
PosInf == [cls |-> "inf", n |-> 1]
NegInf == [cls |-> "inf", n |-> -1]

\* x < y on floats: any comparison with NaN is False
FLt(x, y) ==
    IF x.cls = "nan" \/ y.cls = "nan" THEN FALSE
    ELSE IF x.cls = "inf" THEN x.n < 0 /\ ~(y.cls = "inf" /\ y.n < 0)
    ELSE IF y.cls = "inf" THEN y.n > 0
    ELSE x.n < y.n

\* x <= y on floats
FLe(x, y) ==
    IF x.cls = "nan" \/ y.cls = "nan" THEN FALSE
    ELSE x = y \/ FLt(x, y)

\* x + y on floats
FAdd(x, y) ==
    IF x.cls = "nan" \/ y.cls = "nan" THEN NaN
    ELSE IF x.cls = "inf" /\ y.cls = "inf" THEN (IF x.n = y.n THEN x ELSE NaN)
    ELSE IF x.cls = "inf" THEN x
    ELSE IF y.cls = "inf" THEN y
    ELSE [cls |-> "finite", n |-> RoundRatio(x.n + y.n, 1)]

\* -x on floats
FNeg(x) == IF x.cls = "nan" THEN NaN ELSE [cls |-> x.cls, n |-> 0 - x.n]

\* x - y on floats
FSub(x, y) == FAdd(x, FNeg(y))

-----------------------------------------------------------------------------
(* The in-memory database as constructed at import time.                    *)

fake_users_db_seed ==
    [u \in Users |->
        IF u = "user1"
        THEN [api_key |-> "user1_key", balance |-> Fin(2000), currency |-> "PKR"]
        ELSE [api_key |-> "user2_key", balance |-> Fin(5000), currency |-> "PKR"]]

\* Balances the first account can hold after earlier withdrawals from the
\* seed (2000 - 1990 = 10, 2000 - 2000 = 0), besides the seed balance itself.
StartBalances == {Fin(0), Fin(10), Fin(2000)}

\* Amounts a Transaction body can carry: not positive, positive, not finite.
Amounts == {Fin(0 - 1), Fin(0), Fin(1), Fin(8), NaN, PosInf, NegInf}

\* The amounts of the requests that run concurrently.
ConcurrentAmounts == {Fin(0), Fin(1), Fin(8)}

\* The X-API-Key header of a request: absent, or present with a value.
NoHeader == [present |-> FALSE, value |-> ""]
HeaderOf(v) == [present |-> TRUE, value |-> v]
Headers == {NoHeader} \cup
           {HeaderOf(v) : v \in {"user1_key", "user2_key", "", "wrong_key"}}

Ops == {"get_balance", "deposit", "withdraw"}

NoRequest == [op |-> "none", x_api_key |-> NoHeader, amount |-> Fin(0)]
NoUser == "nobody"
NoResponse == [status_code |-> 0, detail |-> "", user |-> "", balance |-> Fin(0),
               currency |-> ""]

VARIABLES
    fake_users_db,   \* the process-wide dictionary
    request,         \* per thread: the request it serves
    pc,              \* per thread: its position in the handler
    current_user,    \* per thread: the result of get_current_user
    loaded,          \* per thread: the operand, then the result, of the += / -= in progress
    response,        \* per thread: the response sent
    db_at_start      \* fake_users_db when the first request arrived

vars == <<fake_users_db, request, pc, current_user, loaded, response, db_at_start>>

Init ==
    /\ \E b \in StartBalances :
          fake_users_db = [fake_users_db_seed EXCEPT !["user1"].balance = b]
    /\ db_at_start = fake_users_db
    /\ request = [t \in Threads |-> NoRequest]
    /\ pc = [t \in Threads |-> "idle"]
    /\ current_user = [t \in Threads |-> NoUser]
    /\ loaded = [t \in Threads |-> Fin(0)]
    /\ response = [t \in Threads |-> NoResponse]

-----------------------------------------------------------------------------
(* Responses                                                                *)

HTTP_401 == [NoResponse EXCEPT !.status_code = 401, !.detail = "Invalid API Key"]
HTTP_422 == [NoResponse EXCEPT !.status_code = 422, !.detail = "Field required"]
HTTP_400(detail) == [NoResponse EXCEPT !.status_code = 400, !.detail = detail]
\* {"message": ..., "new_balance": ...}
HTTP_200(detail, balance) ==
    [NoResponse EXCEPT !.status_code = 200, !.detail = detail, !.balance = balance]
\* {"user": ..., "balance": ..., "currency": ...}
BalanceResponse(user, balance, currency) ==
    [NoResponse EXCEPT !.status_code = 200, !.user = user, !.balance = balance,
                       !.currency = currency]

Finish(t, r) ==
    /\ response' = [response EXCEPT ![t] = r]
    /\ pc' = [pc EXCEPT ![t] = "done"]

-----------------------------------------------------------------------------
(* A request arrives on an idle worker thread, and FastAPI resolves the     *)
(* handler's dependency, get_current_user, before it calls the handler.     *)

\* faulty variant: the stored key is compared by prefix, so an empty header matches
Matching_prefix(key) ==
    {u \in Users : key = "" \/ fake_users_db[u].api_key = key}

(* get_current_user: the users whose stored key equals the header           *)
Matching(key) == {u \in Users : fake_users_db[u].api_key = key}

\* faulty variant: the loop returns the first user whatever the key
FirstMatch_unconditional(key) == "user1"

\* dict iteration order is insertion order: user1, then user2
FirstMatch(key) == IF "user1" \in Matching(key) THEN "user1" ELSE "user2"

\* faulty variant: the amount is checked before the credential
get_current_user_amount_first(t, op, h, a) ==
    /\ request' = [request EXCEPT ![t] =
                    [op |-> op, x_api_key |-> h,
                     amount |-> IF op = "get_balance" THEN Fin(0) ELSE a]]
    /\ IF ~h.present
       THEN /\ Finish(t, HTTP_422)
            /\ UNCHANGED current_user
       ELSE IF op # "get_balance" /\ FLe(a, Fin(0))
       THEN /\ Finish(t, HTTP_400(IF op = "deposit"
                                  THEN "Deposit amount must be positive."
                                  ELSE "Withdrawal amount must be positive."))
            /\ UNCHANGED current_user
       ELSE IF Matching(h.value) # {}
       THEN /\ current_user' = [current_user EXCEPT ![t] = FirstMatch(h.value)]
            /\ pc' = [pc EXCEPT ![t] = op]
            /\ UNCHANGED response
       ELSE /\ Finish(t, HTTP_401)
            /\ UNCHANGED current_user
    /\ UNCHANGED <<fake_users_db, loaded, db_at_start>>

get_current_user(t, op, h, a) ==
    /\ request' = [request EXCEPT ![t] =
                    [op |-> op, x_api_key |-> h,
                     amount |-> IF op = "get_balance" THEN Fin(0) ELSE a]]
    /\ IF ~h.present
       THEN \* Header(...) is required: FastAPI answers 422 itself
            /\ Finish(t, HTTP_422)
            /\ UNCHANGED current_user
       ELSE IF Matching(h.value) # {}
       THEN /\ current_user' = [current_user EXCEPT ![t] = FirstMatch(h.value)]
            /\ pc' = [pc EXCEPT ![t] = op]
            /\ UNCHANGED response
       ELSE /\ Finish(t, HTTP_401)
            /\ UNCHANGED current_user
    /\ UNCHANGED <<fake_users_db, loaded, db_at_start>>

\* A request arrives while others may be in flight.
Arrive(t) ==
    /\ pc[t] = "idle"
    /\ \E op \in Ops, h \in Headers, a \in ConcurrentAmounts :
          get_current_user(t, op, h, a)

\* A request arrives after every earlier request has been answered.
ArriveAlone(t) ==
    /\ pc[t] = "idle"
    /\ \A s \in Threads : IF s < t THEN pc[s] = "done" ELSE pc[s] = "idle"
    /\ \E op \in Ops, h \in Headers, a \in Amounts :
          get_current_user(t, op, h, a)

-----------------------------------------------------------------------------
(* GET /balance/                                                            *)

\* faulty variant: the handler reads the first account, not the caller's
get_balance_first_account(t) ==
    /\ pc[t] = "get_balance"
    /\ Finish(t, BalanceResponse("user1",
                                 fake_users_db["user1"].balance,
                                 fake_users_db["user1"].currency))
    /\ UNCHANGED <<fake_users_db, request, current_user, loaded, db_at_start>>

\* faulty variant: the handler sees the result of a deposit that is computed
\* but not yet stored
get_balance_dirty(t) ==
    /\ pc[t] = "get_balance"
    /\ LET pending == {s \in DOMAIN pc : /\ pc[s] = "deposit_store"
                                         /\ current_user[s] = current_user[t]}
           seen == IF pending = {} THEN fake_users_db[current_user[t]].balance
                   ELSE LET s == CHOOSE s \in pending : TRUE
                        IN FAdd(loaded[s], request[s].amount)
       IN Finish(t, BalanceResponse(current_user[t], seen,
                                    fake_users_db[current_user[t]].currency))
    /\ UNCHANGED <<fake_users_db, request, current_user, loaded, db_at_start>>

get_balance(t) ==
    /\ pc[t] = "get_balance"
    /\ Finish(t, BalanceResponse(current_user[t],
                                 fake_users_db[current_user[t]].balance,
                                 fake_users_db[current_user[t]].currency))
    /\ UNCHANGED <<fake_users_db, request, current_user, loaded, db_at_start>>

-----------------------------------------------------------------------------
(* POST /deposit/                                                           *)

\* faulty variant: the amount check rejects only negative amounts
deposit_load_zero_accepted(t) ==
    /\ pc[t] = "deposit"
    /\ IF FLt(request[t].amount, Fin(0))
       THEN /\ Finish(t, HTTP_400("Deposit amount must be positive."))
            /\ UNCHANGED loaded
       ELSE /\ loaded' = [loaded EXCEPT ![t] = fake_users_db[current_user[t]].balance]
            /\ pc' = [pc EXCEPT ![t] = "deposit_store"]
            /\ UNCHANGED response
    /\ UNCHANGED <<fake_users_db, request, current_user, db_at_start>>

\* The amount check, then the read of
\* fake_users_db[current_user]["balance"] += amount ...
deposit_load(t) ==
    /\ pc[t] = "deposit"
    /\ IF FLe(request[t].amount, Fin(0))
       THEN /\ Finish(t, HTTP_400("Deposit amount must be positive."))
            /\ UNCHANGED loaded
       ELSE /\ loaded' = [loaded EXCEPT ![t] = fake_users_db[current_user[t]].balance]
            /\ pc' = [pc EXCEPT ![t] = "deposit_store"]
            /\ UNCHANGED response
    /\ UNCHANGED <<fake_users_db, request, current_user, db_at_start>>

\* faulty variant: the write indexes the dictionary by the API key
deposit_store_by_key(t) ==
    /\ pc[t] = "deposit_store"
    /\ LET key == request[t].x_api_key.value IN
       fake_users_db' =
           [k \in DOMAIN fake_users_db \cup {key} |->
               IF k = key
               THEN [api_key |-> key, balance |-> FAdd(loaded[t], request[t].amount),
                     currency |-> "PKR"]
               ELSE fake_users_db[k]]
    /\ loaded' = [loaded EXCEPT ![t] = FAdd(loaded[t], request[t].amount)]
    /\ pc' = [pc EXCEPT ![t] = "deposit_return"]
    /\ UNCHANGED <<request, current_user, response, db_at_start>>

\* ... and the write
deposit_store(t) ==
    /\ pc[t] = "deposit_store"
    /\ fake_users_db' = [fake_users_db EXCEPT ![current_user[t]].balance =
                            FAdd(loaded[t], request[t].amount)]
    /\ loaded' = [loaded EXCEPT ![t] = FAdd(loaded[t], request[t].amount)]
    /\ pc' = [pc EXCEPT ![t] = "deposit_return"]
    /\ UNCHANGED <<request, current_user, response, db_at_start>>

deposit_return(t) ==
    /\ pc[t] = "deposit_return"
    /\ Finish(t, HTTP_200("Deposit successful", fake_users_db[current_user[t]].balance))
    /\ loaded' = [loaded EXCEPT ![t] = Fin(0)]
    /\ UNCHANGED <<fake_users_db, request, current_user, db_at_start>>

-----------------------------------------------------------------------------
(* POST /withdraw/                                                          *)

\* faulty variant: no sufficiency check
withdraw_check_unchecked(t) ==
    /\ pc[t] = "withdraw"
    /\ IF FLe(request[t].amount, Fin(0))
       THEN Finish(t, HTTP_400("Withdrawal amount must be positive."))
       ELSE /\ pc' = [pc EXCEPT ![t] = "withdraw_load"]
            /\ UNCHANGED response
    /\ UNCHANGED <<fake_users_db, request, current_user, loaded, db_at_start>>

\* faulty variant: the sufficiency check compares the amount with the seed balance
\* in place of the current one
withdraw_check_stale(t) ==
    /\ pc[t] = "withdraw"
    /\ IF FLe(request[t].amount, Fin(0))
       THEN Finish(t, HTTP_400("Withdrawal amount must be positive."))
       ELSE IF FLt(fake_users_db_seed[current_user[t]].balance, request[t].amount)
       THEN Finish(t, HTTP_400("Insufficient funds."))
       ELSE /\ pc' = [pc EXCEPT ![t] = "withdraw_load"]
            /\ UNCHANGED response
    /\ UNCHANGED <<fake_users_db, request, current_user, loaded, db_at_start>>

\* faulty variant: a withdrawal of the whole balance is refused
withdraw_check_strict(t) ==
    /\ pc[t] = "withdraw"
    /\ IF FLe(request[t].amount, Fin(0))
       THEN Finish(t, HTTP_400("Withdrawal amount must be positive."))
       ELSE IF FLe(fake_users_db[current_user[t]].balance, request[t].amount)
       THEN Finish(t, HTTP_400("Insufficient funds."))
       ELSE /\ pc' = [pc EXCEPT ![t] = "withdraw_load"]
            /\ UNCHANGED response
    /\ UNCHANGED <<fake_users_db, request, current_user, loaded, db_at_start>>

\* The amount check, then the sufficiency check against the balance read now
withdraw_check(t) ==
    /\ pc[t] = "withdraw"
    /\ IF FLe(request[t].amount, Fin(0))
       THEN Finish(t, HTTP_400("Withdrawal amount must be positive."))
       ELSE IF FLt(fake_users_db[current_user[t]].balance, request[t].amount)
       THEN Finish(t, HTTP_400("Insufficient funds."))
       ELSE /\ pc' = [pc EXCEPT ![t] = "withdraw_load"]
            /\ UNCHANGED response
    /\ UNCHANGED <<fake_users_db, request, current_user, loaded, db_at_start>>

\* fake_users_db[current_user]["balance"] -= amount: the read ...
withdraw_load(t) ==
    /\ pc[t] = "withdraw_load"
    /\ loaded' = [loaded EXCEPT ![t] = fake_users_db[current_user[t]].balance]
    /\ pc' = [pc EXCEPT ![t] = "withdraw_store"]
    /\ UNCHANGED <<fake_users_db, request, current_user, response, db_at_start>>

withdraw_store(t) ==
    /\ pc[t] = "withdraw_store"
    /\ fake_users_db' = [fake_users_db EXCEPT ![current_user[t]].balance =
                            FSub(loaded[t], request[t].amount)]
    /\ loaded' = [loaded EXCEPT ![t] = FSub(loaded[t], request[t].amount)]
    /\ pc' = [pc EXCEPT ![t] = "withdraw_return"]
    /\ UNCHANGED <<request, current_user, response, db_at_start>>

withdraw_return(t) ==
    /\ pc[t] = "withdraw_return"
    /\ Finish(t, HTTP_200("Withdrawal successful", fake_users_db[current_user[t]].balance))
    /\ loaded' = [loaded EXCEPT ![t] = Fin(0)]
    /\ UNCHANGED <<fake_users_db, request, current_user, db_at_start>>

-----------------------------------------------------------------------------

Step(t) ==
    \/ get_balance(t)
    \/ deposit_load(t)
    \/ deposit_store(t)
    \/ deposit_return(t)
    \/ withdraw_check(t)
    \/ withdraw_load(t)
    \/ withdraw_store(t)
    \/ withdraw_return(t)

\* Requests served concurrently by the worker threads.
Next == \E t \in Threads : Arrive(t) \/ Step(t)

Spec == Init /\ [][Next]_vars

\* Requests served one after another.
NextSeq == \E t \in Threads : ArriveAlone(t) \/ Step(t)

SpecSeq == Init /\ [][NextSeq]_vars

-----------------------------------------------------------------------------
(* Requests of authenticated callers served one after another: the          *)
(* arithmetic of the ledger on amounts with decimal fractions.              *)

\* Number of requests.
NRequests == 3

Requests == 1..NRequests

\* Balances of the first account: 0 and 10 as above, 0.1 after a deposit of
\* 0.1 on balance 0.
LedgerBalances == {Fin(0), Tenths(1), Fin(10)}

LedgerAmounts == {Tenths(1), Tenths(2), Tenths(3), Fin(8)}

InitLedger ==
    /\ \E b \in LedgerBalances :
          fake_users_db = [fake_users_db_seed EXCEPT !["user1"].balance = b]
    /\ db_at_start = fake_users_db
    /\ request = [t \in Requests |-> NoRequest]
    /\ pc = [t \in Requests |-> "idle"]
    /\ current_user = [t \in Requests |-> NoUser]
    /\ loaded = [t \in Requests |-> Fin(0)]
    /\ response = [t \in Requests |-> NoResponse]

\* The next request arrives after the earlier ones were answered.
ArriveInTurn(t) ==
    /\ pc[t] = "idle"
    /\ \A s \in Requests : IF s < t THEN pc[s] = "done" ELSE pc[s] = "idle"
    /\ \E op \in Ops, key \in {"user1_key", "user2_key"}, a \in LedgerAmounts :
          get_current_user(t, op, HeaderOf(key), a)

NextLedger == \E t \in Requests : ArriveInTurn(t) \/ Step(t)

SpecLedger == InitLedger /\ [][NextLedger]_vars

-----------------------------------------------------------------------------
(* The failure kinds of the specification, as the responses that carry them *)

Unauthenticated(r) == r.status_code = 401
InvalidAmount(r) ==
    /\ r.status_code = 400
    /\ r.detail \in {"Deposit amount must be positive.",
                     "Withdrawal amount must be positive."}
InsufficientFunds(r) == r.status_code = 400 /\ r.detail = "Insufficient funds."
Succeeded(r) == r.status_code = 200

Mutation(t) == request[t].op \in {"deposit", "withdraw"}
Balance(u) == fake_users_db[u].balance
Negative(x) == FLt(x, Fin(0))
Positive(x) == FLt(Fin(0), x)

\* thread t takes a step
Moves(t) == pc'[t] # pc[t]

-----------------------------------------------------------------------------
\* C1: when requests are served one after another, no account's balance is
\* ever negative (below zero), whatever the amounts and outcomes.
C1_NeverNegativeSequential == \A u \in Users : ~Negative(Balance(u))

\* a withdrawal of 8 has left 2 of 10 and a later withdrawal of 8 was refused
C1_Witness ==
    \E t1, t2 \in Threads :
        /\ request[t1].op = "withdraw" /\ Succeeded(response[t1])
        /\ request[t2].op = "withdraw" /\ InsufficientFunds(response[t2])
        /\ current_user[t1] = current_user[t2]
        /\ request[t2].amount = Fin(8)
        /\ Balance(current_user[t1]) = Fin(2)

-----------------------------------------------------------------------------
AllDone == \A t \in Threads : pc[t] = "done"

IsRequest(t, op, key, amount) ==
    /\ request[t].op = op
    /\ request[t].x_api_key = HeaderOf(key)
    /\ request[t].amount = amount

\* C2: from balance 10, two concurrent withdrawals of 8: exactly one succeeds,
\* the other fails with InsufficientFunds, and the final balance is 2.
C2_OneOfTwoWithdrawals ==
    \A t1, t2 \in Threads :
        ( /\ t1 # t2
          /\ db_at_start["user1"].balance = Fin(10)
          /\ IsRequest(t1, "withdraw", "user1_key", Fin(8))
          /\ IsRequest(t2, "withdraw", "user1_key", Fin(8))
          /\ pc[t1] = "done" /\ pc[t2] = "done"
          /\ \A t \in Threads \ {t1, t2} : pc[t] = "idle" )
        => ( /\ Succeeded(response[t1]) # Succeeded(response[t2])
             /\ InsufficientFunds(response[t1]) # InsufficientFunds(response[t2])
             /\ Balance("user1") = Fin(2) )

\* C3: from balance 0, N concurrent deposits of 1 leave the balance at N.
C3_NoLostDeposit ==
    ( /\ db_at_start["user1"].balance = Fin(0)
      /\ \A t \in Threads : IsRequest(t, "deposit", "user1_key", Fin(1))
      /\ AllDone )
    => Balance("user1") = Fin(NThreads)

-----------------------------------------------------------------------------
(* One deposit or withdraw run alone on balance b: its outcome and the      *)
(* balance it leaves.                                                       *)
Alone(op, amount, b) ==
    IF op = "deposit"
    THEN IF FLe(amount, Fin(0))
         THEN [status_code |-> 400, detail |-> "Deposit amount must be positive.",
               balance |-> b]
         ELSE [status_code |-> 200, detail |-> "Deposit successful",
               balance |-> FAdd(b, amount)]
    ELSE IF FLe(amount, Fin(0))
         THEN [status_code |-> 400, detail |-> "Withdrawal amount must be positive.",
               balance |-> b]
         ELSE IF FLt(b, amount)
         THEN [status_code |-> 400, detail |-> "Insufficient funds.", balance |-> b]
         ELSE [status_code |-> 200, detail |-> "Withdrawal successful",
               balance |-> FSub(b, amount)]

\* the orders in which the threads of T can be served one after another
Orders(T) ==
    {o \in [1..Cardinality(T) -> T] : \A i, j \in 1..Cardinality(T) : o[i] = o[j] => i = j}

RECURSIVE SerialFrom(_, _, _, _)
\* serving o[i], o[i+1], ... alone from balance b gives each request the
\* outcome it got and ends with balance final
SerialFrom(o, i, b, final) ==
    IF i > Len(o) THEN b = final
    ELSE LET t == o[i]
             r == Alone(request[t].op, request[t].amount, b)
         IN /\ r.status_code = response[t].status_code
            /\ r.detail = response[t].detail
            /\ SerialFrom(o, i + 1, r.balance, final)

MutatorsOf(u) == {t \in Threads : Mutation(t) /\ current_user[t] = u}

\* C4: the outcomes and the final balance of concurrent deposits and
\* withdrawals on one account are those of some serial order of them.
C4_Serializable ==
    AllDone =>
        \A u \in Users :
            \E o \in Orders(MutatorsOf(u)) :
                SerialFrom(o, 1, db_at_start[u].balance, Balance(u))

\* C5: with requests interleaving at their reads, checks and writes, no
\* withdrawal ever leaves an account with a balance below zero.
C5_NeverNegativeConcurrent == \A u \in Users : FLe(Fin(0), Balance(u))

-----------------------------------------------------------------------------
\* C6: a withdraw by an authenticated caller of a positive amount greater
\* than the caller's balance is answered InsufficientFunds, and changes no
\* balance.
C6_InsufficientFunds ==
    [][\A t \in Threads :
        ( /\ pc[t] = "withdraw"
          /\ Moves(t)
          /\ Positive(request[t].amount)
          /\ FLt(Balance(current_user[t]), request[t].amount) )
        => ( /\ pc'[t] = "done"
             /\ InsufficientFunds(response'[t])
             /\ fake_users_db' = fake_users_db )]_vars

\* an infinite and a finite withdrawal were both refused
C6_Witness ==
    \E t1, t2 \in Threads :
        /\ request[t1].op = "withdraw" /\ request[t1].amount = PosInf
        /\ InsufficientFunds(response[t1])
        /\ request[t2].op = "withdraw" /\ request[t2].amount = Fin(8)
        /\ InsufficientFunds(response[t2])
        /\ fake_users_db = db_at_start

\* C7: a deposit or withdraw by an authenticated caller with amount <= 0 is
\* answered InvalidAmount, and changes no balance.
C7_InvalidAmount ==
    [][\A t \in Threads :
        ( /\ pc[t] \in {"deposit", "withdraw"}
          /\ Moves(t)
          /\ FLe(request[t].amount, Fin(0)) )
        => ( /\ pc'[t] = "done"
             /\ InvalidAmount(response'[t])
             /\ fake_users_db' = fake_users_db )]_vars

\* a deposit of 0 and a withdrawal of a negative amount were both refused
C7_Witness ==
    \E t1, t2 \in Threads :
        /\ request[t1].op = "deposit" /\ request[t1].amount = Fin(0)
        /\ InvalidAmount(response[t1])
        /\ request[t2].op = "withdraw" /\ Negative(request[t2].amount)
        /\ InvalidAmount(response[t2])
        /\ fake_users_db = db_at_start

-----------------------------------------------------------------------------
\* the header carries a credential that is empty or stored for no account
UnknownCredential(h) ==
    h.present /\ (h.value = "" \/ \A u \in Users : fake_users_db[u].api_key # h.value)

\* C8: a request on a protected route whose credential is empty or matches
\* no stored credential is answered Unauthenticated and changes no balance,
\* whatever the other requests in flight are doing.
C8_UnknownCredential ==
    [][\A t \in Threads :
        ( /\ pc[t] = "idle"
          /\ Moves(t)
          /\ UnknownCredential(request'[t].x_api_key) )
        => ( /\ pc'[t] = "done"
             /\ Unauthenticated(response'[t])
             /\ current_user'[t] = NoUser
             /\ fake_users_db' = fake_users_db )]_vars

\* an empty credential was refused on one route while a withdrawal with a
\* valid credential was between its read and its write
C8_Witness ==
    \E t1, t2 \in Threads :
        /\ request[t1].x_api_key = HeaderOf("")
        /\ Mutation(t1)
        /\ pc[t1] = "done" /\ Unauthenticated(response[t1])
        /\ pc[t2] = "withdraw_store"

\* C9: a request without any credential is answered Unauthenticated.
C9_AbsentCredential ==
    \A t \in Threads :
        (pc[t] = "done" /\ ~request[t].x_api_key.present)
            => Unauthenticated(response[t])

-----------------------------------------------------------------------------
\* the accounts the credential of thread t's request resolves to
ResolvesTo(t) ==
    {u \in Users : /\ request[t].x_api_key.present
                   /\ fake_users_db[u].api_key = request[t].x_api_key.value}

\* C10: a step changes no credential and no currency, and changes a balance
\* only of the account that the credential of the deposit or withdraw request
\* taking the step resolves to.
C10_Frame ==
    [][\A u \in Users :
        /\ fake_users_db'[u].api_key = fake_users_db[u].api_key
        /\ fake_users_db'[u].currency = fake_users_db[u].currency
        /\ fake_users_db'[u].balance # fake_users_db[u].balance
             => \E t \in Threads :
                    /\ Moves(t)
                    /\ Mutation(t)
                    /\ u \in ResolvesTo(t)
                    /\ \A s \in Threads \ {t} : pc'[s] = pc[s]
                    /\ \A v \in Users \ {u} : fake_users_db'[v] = fake_users_db[v]]_vars

\* user2 has deposited and user1 has withdrawn: each changed their own balance
C10_Witness ==
    \E t1, t2 \in Threads :
        /\ request[t1].op = "deposit" /\ current_user[t1] = "user2"
        /\ Succeeded(response[t1])
        /\ request[t2].op = "withdraw" /\ current_user[t2] = "user1"
        /\ Succeeded(response[t2])
        /\ Balance("user2") # db_at_start["user2"].balance
        /\ Balance("user1") # db_at_start["user1"].balance

-----------------------------------------------------------------------------
\* the account whose stored credential is key
AccountOf(key) == CHOOSE u \in Users : fake_users_db_seed[u].api_key = key

\* every request from number t on is still to arrive
NoneFrom(t) == \A s \in Requests : s >= t => pc[s] = "idle"

\* C11: alone on an account with balance b, a deposit of A > 0 followed by a
\* withdraw of A both succeed and leave the balance exactly b.
C11_DepositThenWithdraw ==
    \A key \in {"user1_key", "user2_key"}, A \in LedgerAmounts :
        ( /\ IsRequest(1, "deposit", key, A)
          /\ IsRequest(2, "withdraw", key, A)
          /\ pc[2] = "done"
          /\ NoneFrom(3) )
        => ( /\ Succeeded(response[1])
             /\ Succeeded(response[2])
             /\ Balance(AccountOf(key)) = db_at_start[AccountOf(key)].balance )

-----------------------------------------------------------------------------
\* C12: get_balance answers with the caller's identity, balance and currency
\* and changes nothing; from balance B, get_balance returns B, a deposit of
\* D > 0 returns B + D, and a withdraw of more than B + D is refused with
\* InsufficientFunds and leaves B + D.
C12_BalanceScenario ==
    \A key \in {"user1_key", "user2_key"} :
        LET u == AccountOf(key)
            B == db_at_start[u].balance
        IN /\ \A t \in Requests :
                (pc[t] = "done" /\ request[t].op = "get_balance"
                                /\ request[t].x_api_key = HeaderOf(key))
                => /\ response[t].status_code = 200
                   /\ response[t].user = u
                   /\ response[t].currency = fake_users_db_seed[u].currency
                   /\ (t = 1 => response[t].balance = B)
                   /\ (NoneFrom(t + 1) /\ pc[t] = "done"
                         => response[t].balance = Balance(u))
           /\ (request[1].op = "get_balance" /\ pc[1] = "done" /\ NoneFrom(2))
                => fake_users_db = db_at_start
           /\ \A D, W \in LedgerAmounts :
                ( /\ IsRequest(1, "get_balance", key, Fin(0))
                  /\ IsRequest(2, "deposit", key, D)
                  /\ IsRequest(3, "withdraw", key, W)
                  /\ FLt(FAdd(B, D), W)
                  /\ pc[3] = "done"
                  /\ NoneFrom(4) )
                => ( /\ response[1].balance = B
                     /\ Succeeded(response[2])
                     /\ response[2].balance = FAdd(B, D)
                     /\ InsufficientFunds(response[3])
                     /\ Balance(u) = FAdd(B, D) )

\* balance 0 was read, 0.1 deposited and a withdrawal of 8 refused
C12_Witness ==
    /\ IsRequest(1, "get_balance", "user1_key", Fin(0))
    /\ IsRequest(2, "deposit", "user1_key", Tenths(1))
    /\ IsRequest(3, "withdraw", "user1_key", Fin(8))
    /\ db_at_start["user1"].balance = Fin(0)
    /\ pc[3] = "done"
    /\ InsufficientFunds(response[3])
    /\ Balance("user1") = Tenths(1)

-----------------------------------------------------------------------------
\* C13: a deposit or withdraw whose amount is not finite is answered
\* InvalidAmount.
C13_NonFiniteAmount ==
    \A t \in Threads :
        ( /\ pc[t] = "done"
          /\ Mutation(t)
          /\ current_user[t] # NoUser
          /\ request[t].amount.cls # "finite" )
        => InvalidAmount(response[t])

\* C14: three deposits of 0.1 leave the balance that one deposit of 0.3
\* leaves on the same starting balance.
C14_ThreeTenths ==
    \A key \in {"user1_key", "user2_key"} :
        ( /\ \A t \in 1..3 : IsRequest(t, "deposit", key, Tenths(1))
          /\ pc[3] = "done"
          /\ NoneFrom(4) )
        => Balance(AccountOf(key)) =
               Alone("deposit", Tenths(3), db_at_start[AccountOf(key)].balance).balance

-----------------------------------------------------------------------------
\* C15: get_balance running among deposits and withdrawals on the same
\* account returns the balance stored at the moment of its read: the value
\* left by the latest completed write (or the starting balance), never the
\* operand or the unwritten result of a mutation in progress.
C15_NoTornRead ==
    [][\A t \in Threads :
        (pc[t] = "get_balance" /\ Moves(t))
        => ( /\ pc'[t] = "done"
             /\ response'[t].status_code = 200
             /\ response'[t].balance = Balance(current_user[t])
             /\ fake_users_db' = fake_users_db )]_vars

\* the balance was read while a deposit of 8 on the same account was between
\* its read and its write: get_balance returned the balance before it
C15_Witness ==
    \E t1, t2 \in Threads :
        /\ request[t1].op = "get_balance" /\ pc[t1] = "done"
        /\ pc[t2] = "deposit_store" /\ request[t2].amount = Fin(8)
        /\ current_user[t1] = current_user[t2]
        /\ response[t1].balance = loaded[t2]
        /\ response[t1].balance = db_at_start[current_user[t1]].balance

-----------------------------------------------------------------------------
\* C16: the new balance a successful deposit or withdraw returns is the value
\* its own update computed and stored, whatever runs concurrently.
C16_ReturnsOwnUpdate ==
    [][\A t \in Threads :
        (pc[t] \in {"deposit_return", "withdraw_return"} /\ Moves(t))
        => response'[t].balance = loaded[t]]_vars

-----------------------------------------------------------------------------
\* C17: a request with an empty or unknown credential is answered
\* Unauthenticated whatever its amount, before any amount is examined or any
\* balance touched; a withdraw of an amount <= 0 by an authenticated caller is
\* answered InvalidAmount, not InsufficientFunds.
C17_AuthenticationFirst ==
    \A t \in Threads :
        /\ (pc[t] # "idle" /\ UnknownCredential(request[t].x_api_key))
             => ( /\ pc[t] = "done"
                  /\ Unauthenticated(response[t])
                  /\ ~InvalidAmount(response[t])
                  /\ ~InsufficientFunds(response[t])
                  /\ current_user[t] = NoUser
                  /\ loaded[t] = Fin(0)
                  /\ (t = 1 /\ \A s \in Threads \ {t} : pc[s] = "idle")
                        => fake_users_db = db_at_start )
        /\ (current_user[t] = NoUser) => pc[t] \in {"idle", "done"}
        /\ ( /\ pc[t] = "done"
             /\ request[t].op = "withdraw"
             /\ current_user[t] # NoUser
             /\ FLe(request[t].amount, Fin(0)) )
             => (InvalidAmount(response[t]) /\ ~InsufficientFunds(response[t]))

\* an unknown credential with an amount above every balance, and one with an
\* amount <= 0, were both refused as unauthenticated
C17_Witness ==
    \E t1, t2 \in Threads :
        /\ IsRequest(t1, "withdraw", "wrong_key", PosInf)
        /\ Unauthenticated(response[t1])
        /\ IsRequest(t2, "deposit", "", Fin(0))
        /\ Unauthenticated(response[t2])

-----------------------------------------------------------------------------
RECURSIVE BalanceAfter(_, _)
\* the balance of account u once requests 1..t were served one after another
BalanceAfter(t, u) ==
    IF t = 0 THEN db_at_start[u].balance
    ELSE IF Mutation(t) /\ current_user[t] = u
    THEN Alone(request[t].op, request[t].amount, BalanceAfter(t - 1, u)).balance
    ELSE BalanceAfter(t - 1, u)

-----------------------------------------------------------------------------
\* C19: the accounts, their credentials and their currencies are those of the
\* seed in every reachable state, no two accounts share a credential, and
\* every identity get_current_user returned is an account of the ledger.
C19_AccountsFixed ==
    /\ DOMAIN fake_users_db = DOMAIN fake_users_db_seed
    /\ \A u \in DOMAIN fake_users_db :
          /\ fake_users_db[u].api_key = fake_users_db_seed[u].api_key
          /\ fake_users_db[u].currency = fake_users_db_seed[u].currency
    /\ \A u, v \in DOMAIN fake_users_db :
          fake_users_db[u].api_key = fake_users_db[v].api_key => u = v
    /\ \A t \in Threads :
          /\ current_user[t] # NoUser => current_user[t] \in DOMAIN fake_users_db
          /\ request[t].x_api_key.present
                => Cardinality(Matching(request[t].x_api_key.value)) <= 1

\* both callers were authenticated and each has deposited on their account
C19_Witness ==
    \E t1, t2 \in Threads :
        /\ current_user[t1] = "user1" /\ current_user[t2] = "user2"
        /\ request[t1].op = "deposit" /\ Succeeded(response[t1])
        /\ request[t2].op = "deposit" /\ Succeeded(response[t2])
        /\ Balance("user1") # db_at_start["user1"].balance
        /\ Balance("user2") # db_at_start["user2"].balance

====
